---- MODULE Spec2Model ----
(***************************************************************************)
(* A model of the inliner's target matching (inliner/targets.py) and of    *)
(* its structural utilities (inliner/common.py).                           *)
(*                                                                         *)
(* Python strings that the code splits, joins or slices are sequences of   *)
(* one-character strings; a call of a pure function is a two-state run:    *)
(* Init draws the operation and its inputs, one action applies it.         *)
(***************************************************************************)
EXTENDS Integers, Sequences, FiniteSets, TLC

\* op:          the operation called (targets.py:20, common.py:103, ...)
\* args:        its arguments
\* ret:         Pending, then the value returned or the exception raised
\* todo:        IsEffectFree's pending visits (common.py:231), innermost first
\* effect_free: IsEffectFree.effect_free (common.py:205)
VARIABLES op, args, ret, todo, effect_free

vars == <<op, args, ret, todo, effect_free>>

(***************************************************************************)
(* Results of a call: a returned value or a raised exception.              *)
(***************************************************************************)
Pending == [kind |-> "pending"]
Ok(v) == [kind |-> "ok", val |-> v]
Raise(e) == [kind |-> "raise", exc |-> e]

Returned(r) == r.kind = "ok"
Raised(r) == r.kind = "raise"

(***************************************************************************)
(* Bounds of the model.                                                    *)
(***************************************************************************)
MaxTargetLen == 3
MaxModuleLen == 5
MaxPathLen == 5
MaxLine == 2
MaxColumn == 2
MaxElts == 2
MaxCompareElts == 2
MaxObjElts == 2
MaxPayloadLen == 4

(***************************************************************************)
(* str: split('.'), '.'.join, startswith, slices.                          *)
(***************************************************************************)
RECURSIVE SplitAcc(_, _, _)
SplitAcc(s, cur, acc) ==
  IF s = <<>> THEN Append(acc, cur)
  ELSE IF Head(s) = "." THEN SplitAcc(Tail(s), <<>>, Append(acc, cur))
  ELSE SplitAcc(Tail(s), Append(cur, Head(s)), acc)

split(s) == SplitAcc(s, <<>>, <<>>)

RECURSIVE join(_)
join(parts) ==
  IF parts = <<>> THEN <<>>
  ELSE IF Len(parts) = 1 THEN parts[1]
  ELSE parts[1] \o <<".">> \o join(Tail(parts))

\* l[:n] for n >= 0
Take(l, n) == IF n <= 0 THEN <<>> ELSE IF n >= Len(l) THEN l ELSE SubSeq(l, 1, n)

\* l[:-n] for n > 0
DropLast(l, n) == Take(l, Len(l) - n)

startswith(s, p) == Len(p) <= Len(s) /\ Take(s, Len(p)) = p

\* Dotted names as the import system produces them: no empty segment.
WellFormed(s) ==
  /\ s # <<>>
  /\ s[1] # "."
  /\ s[Len(s)] # "."
  /\ \A i \in 1..(Len(s) - 1) : ~(s[i] = "." /\ s[i + 1] = ".")

Strings(alphabet, maxLen) == UNION {[1..n -> alphabet] : n \in 0..maxLen}

DottedNames(letters, maxLen) ==
  {s \in Strings(letters \cup {"."}, maxLen) : WellFormed(s)}

(***************************************************************************)
(* Runtime values seen by the matching predicates.                         *)
(***************************************************************************)
NoneValue == [t |-> "none"]

\* The class hierarchy: user classes Base > C > Sub, an unrelated D, and the
\* builtin types of the non-instance values.
UserClasses == {"Base", "C", "Sub", "D"}
BuiltinClasses == {"object", "type", "function", "method", "int"}
Classes == UserClasses \cup BuiltinClasses

BaseOf(c) ==
  CASE c = "C" -> "Base"
    [] c = "Sub" -> "C"
    [] OTHER -> "object"

RECURSIVE Mro(_)
Mro(c) == IF c = "object" THEN <<"object">> ELSE <<c>> \o Mro(BaseOf(c))

InMro(b, c) == \E i \in 1..Len(Mro(c)) : Mro(c)[i] = b

ClassValue(c) == [t |-> "class", name |-> c]
InstanceValue(c) == [t |-> "instance", cls |-> c]
FunctionValue(q) == [t |-> "function", qualname |-> q]
MethodValue(c, q) == [t |-> "method", selfcls |-> c, func |-> FunctionValue(q)]
IntValue(n) == [t |-> "int", n |-> n]

\* qualified names of the modelled functions: a free function f, methods m
\* of C and of D, and a function nested two levels deep.
QualNames ==
  { <<"f">>, <<"C", ".", "m">>, <<"D", ".", "m">>, <<"C", ".", "I", ".", "m">> }

ClassValues == {ClassValue(c) : c \in UserClasses \cup {"object"}}
InstanceValues == {InstanceValue(c) : c \in UserClasses}
FunctionValues == {FunctionValue(q) : q \in QualNames}
MethodValues ==
  {MethodValue(c, q) : c \in UserClasses, q \in {<<"C", ".", "m">>, <<"f">>}}

Values ==
  ClassValues \cup InstanceValues \cup FunctionValues \cup MethodValues
    \cup {IntValue(1), NoneValue}

\* type(v)
TypeOf(v) ==
  CASE v.t = "class" -> "type"
    [] v.t = "instance" -> v.cls
    [] v.t = "function" -> "function"
    [] v.t = "method" -> "method"
    [] v.t = "int" -> "int"
    [] OTHER -> "object"

isclass(v) == v.t = "class"
ismethod(v) == v.t = "method"
isfunction(v) == v.t = "function"

\* issubclass(cls, other): TypeError when `other` is not a class.
issubclass(cls, other) ==
  IF ~isclass(other) THEN Raise("TypeError")
  ELSE Ok(InMro(other.name, cls.name))

\* isinstance(v, cls)
isinstance(v, cls) == InMro(cls.name, TypeOf(v))

\* a try block whose except clause yields False
OrFalse(r) == IF Returned(r) THEN r.val ELSE FALSE

(***************************************************************************)
(* inliner/targets.py: the four matching predicates.                       *)
(***************************************************************************)
ModuleValue(name) == [t |-> "module", name |-> name]

\* inspect.getmodule(obj): the defining module, or None when there is none
\* (an int, a tuple, ...).
getmodule(obj) == obj.module

\* variant: the names compared as text instead of segment by segment
ModuleTarget_should_inline_startswith(target, obj) ==
  LET module == getmodule(obj) IN
  IF module.t = "none" THEN Raise("AttributeError")
  ELSE Ok(startswith(module.name, target.name))

ModuleTarget_should_inline(target, obj) ==
  LET module == getmodule(obj) IN
  IF module.t = "none" THEN Raise("AttributeError")
  ELSE LET module_parts == split(module.name)
           target_parts == split(target.name)
       IN Ok(Take(module_parts, Len(target_parts)) = target_parts)

FunctionTarget_should_inline(target, obj) ==
  IF ismethod(obj) THEN Ok(obj.func = target)
  ELSE IF isfunction(obj) THEN Ok(obj = target)
  ELSE Ok(FALSE)

\* pass_.get_metadata(PositionProvider, code, None)
get_metadata(code) == code.pos

CursorTarget_should_inline(target, code) ==
  LET pos == get_metadata(code) IN
  IF pos.t = "none" THEN Ok(FALSE)
  ELSE IF /\ pos.start.line <= target.line /\ target.line <= pos.end.line
          /\ pos.start.column <= target.column
          /\ target.column <= pos.end.column
       THEN Ok(TRUE)
       ELSE Ok(FALSE)

\* pass_.eval(expr): the value of the expression in the traced scope, or an
\* exception; the empty text is no expression.
pass_eval(expr, env) == IF expr = <<>> THEN Raise("SyntaxError") ELSE env

ClassTarget_unbound_method(target, code, obj, env) ==
  IF isfunction(obj) THEN
    IF code.kind = "Attribute" THEN
      LET r == pass_eval(code.value, env) IN
      IF Raised(r) THEN FALSE
      ELSE IF isinstance(r.val, target) THEN TRUE
      ELSE OrFalse(issubclass(target, r.val))
    ELSE
      LET qname == split(obj.qualname)
          r == pass_eval(join(DropLast(qname, 1)), env)
      IN IF Raised(r) THEN FALSE ELSE OrFalse(issubclass(target, r.val))
  ELSE FALSE

\* variant: the callable-instance shape left out
ClassTarget_should_inline_no_call(target, code, obj, env) ==
  LET constructor ==
        (isclass(obj) /\ obj.name = target.name)
          \/ OrFalse(issubclass(target, obj))
      bound_method ==
        ismethod(obj) /\ issubclass(target, ClassValue(obj.selfcls)).val
      unbound_method == ClassTarget_unbound_method(target, code, obj, env)
  IN Ok(constructor \/ bound_method \/ unbound_method)

ClassTarget_should_inline(target, code, obj, env) ==
  LET constructor ==
        (isclass(obj) /\ obj.name = target.name)
          \/ OrFalse(issubclass(target, obj))
      bound_method ==
        ismethod(obj) /\ issubclass(target, ClassValue(obj.selfcls)).val
      unbound_method == ClassTarget_unbound_method(target, code, obj, env)
      dunder_call == isinstance(obj, target)
  IN Ok(constructor \/ bound_method \/ unbound_method \/ dunder_call)

(***************************************************************************)
(* inliner/targets.py: make_target.  The import system is a fixed world:   *)
(* package a with submodule a.a, class C, function m and integer n;        *)
(* a.a with function m; class C with method m and class attribute n.       *)
(***************************************************************************)
ImportableNames == { <<"a">>, <<"a", ".", "a">> }

\* importlib.import_module(name)
import_module(name) ==
  IF name = <<>> THEN Raise("ValueError")
  ELSE IF name \in ImportableNames THEN Ok(ModuleValue(name))
  ELSE Raise("ModuleNotFoundError")

\* getattr(v, attr)
getattr(v, attr) ==
  IF v.t = "module" /\ v.name = <<"a">> THEN
    CASE attr = <<"a">> -> Ok(ModuleValue(<<"a", ".", "a">>))
      [] attr = <<"C">> -> Ok(ClassValue("C"))
      [] attr = <<"m">> -> Ok(FunctionValue(<<"m">>))
      [] attr = <<"n">> -> Ok(IntValue(1))
      [] OTHER -> Raise("AttributeError")
  ELSE IF v.t = "module" /\ v.name = <<"a", ".", "a">> THEN
    CASE attr = <<"m">> -> Ok(FunctionValue(<<"g">>))
      [] OTHER -> Raise("AttributeError")
  ELSE IF v.t = "class" /\ v.name = "C" THEN
    CASE attr = <<"m">> -> Ok(FunctionValue(<<"C", ".", "m">>))
      [] attr = <<"n">> -> Ok(IntValue(1))
      [] OTHER -> Raise("AttributeError")
  ELSE Raise("AttributeError")

\* getattr(getattr(mod, a1), a2)
getattr2(mod, a1, a2) ==
  LET r == getattr(mod, a1) IN IF Raised(r) THEN r ELSE getattr(r.val, a2)

InlineTarget(variant, target) ==
  [t |-> "InlineTarget", variant |-> variant, target |-> target]

\* lines 131-141: the three import attempts for a textual path
make_target_resolve(target) ==
  LET first == import_module(target) IN
  IF Returned(first) \/ first.exc # "ModuleNotFoundError" THEN first
  ELSE
    LET parts == split(target)
        second == import_module(join(DropLast(parts, 1)))
    IN IF Returned(second) THEN getattr(second.val, parts[Len(parts)])
       ELSE IF second.exc # "ModuleNotFoundError" THEN second
       ELSE
         LET third == import_module(join(DropLast(parts, 2))) IN
         IF Returned(third)
         THEN getattr2(third.val, parts[Len(parts) - 1], parts[Len(parts)])
         ELSE third

make_target(target) ==
  IF target.t = "InlineTarget" THEN Ok(target)
  ELSE
    LET r == IF target.t = "str" THEN make_target_resolve(target.chars)
             ELSE Ok(target)
    IN IF Raised(r) THEN r
       ELSE IF r.val.t = "module" THEN Ok(InlineTarget("ModuleTarget", r.val))
       ELSE IF isfunction(r.val) THEN Ok(InlineTarget("FunctionTarget", r.val))
       ELSE IF isclass(r.val) THEN Ok(InlineTarget("ClassTarget", r.val))
       ELSE Raise("Exception")

(***************************************************************************)
(* The inputs of the target operations.                                    *)
(***************************************************************************)
ModuleLetters == {"a", "b", "c"}
PathLetters == {"a", "C", "m", "n", "z"}

TargetModules == {ModuleValue(s) : s \in DottedNames(ModuleLetters, MaxTargetLen)}
ObjectsWithModule ==
  {[t |-> "object", module |-> ModuleValue(s)] :
     s \in DottedNames(ModuleLetters, MaxModuleLen)}
    \cup {[t |-> "object", module |-> NoneValue]}

Positions == [line : 1..MaxLine, column : 0..MaxColumn]
Before(p, q) == p.line < q.line \/ (p.line = q.line /\ p.column <= q.column)
CodeRanges ==
  {r \in [t : {"range"}, start : Positions, end : Positions] :
     Before(r.start, r.end)}
PositionedCode == {[pos |-> p] : p \in CodeRanges \cup {NoneValue}}

TargetClasses == {ClassValue(c) : c \in UserClasses}
CallSites == {[kind |-> "Attribute", value |-> <<"x">>],
              [kind |-> "Name", value |-> <<>>]}
Environments == {Ok(v) : v \in Values} \cup {Raise("NameError")}

TextTargets == {[t |-> "str", chars |-> s] : s \in DottedNames(PathLetters, MaxPathLen)}
MakeTargetInputs ==
  TextTargets
    \cup {InlineTarget("ClassTarget", ClassValue("C")),
          InlineTarget("CursorTarget", [line |-> 1, column |-> 0])}
    \cup {ClassValue("D"), FunctionValue(<<"f">>), ModuleValue(<<"a">>),
          IntValue(1)}

Init ==
  /\ ret = Pending
  /\ todo = <<>>
  /\ effect_free = TRUE
  /\ \/ /\ op = "ModuleTarget.should_inline"
        /\ args \in [target : TargetModules, obj : ObjectsWithModule]
     \/ /\ op = "FunctionTarget.should_inline"
        /\ args \in [target : FunctionValues, obj : Values]
     \/ /\ op = "CursorTarget.should_inline"
        /\ args \in [target : Positions, code : PositionedCode]
     \/ /\ op = "ClassTarget.should_inline"
        /\ args \in [target : TargetClasses, code : CallSites,
                     obj : Values, env : Environments]
     \/ /\ op = "make_target"
        /\ args \in [target : MakeTargetInputs]

Return(name, r) ==
  /\ op = name
  /\ ret = Pending
  /\ ret' = r
  /\ UNCHANGED <<op, args, todo, effect_free>>

ModuleShouldInline ==
  Return("ModuleTarget.should_inline",
         ModuleTarget_should_inline(args.target, args.obj))

FunctionShouldInline ==
  Return("FunctionTarget.should_inline",
         FunctionTarget_should_inline(args.target, args.obj))

CursorShouldInline ==
  Return("CursorTarget.should_inline",
         CursorTarget_should_inline(args.target, args.code))

ClassShouldInline ==
  Return("ClassTarget.should_inline",
         ClassTarget_should_inline(args.target, args.code, args.obj, args.env))

MakeTarget == Return("make_target", make_target(args.target))

Next ==
  \/ ModuleShouldInline
  \/ FunctionShouldInline
  \/ CursorShouldInline
  \/ ClassShouldInline
  \/ MakeTarget

Spec == Init /\ [][Next]_vars

(***************************************************************************)
(* Properties of the target operations.                                    *)
(***************************************************************************)
Done(name) == op = name /\ ret # Pending
Yes(r) == Returned(r) /\ r.val = TRUE
No(r) == Returned(r) /\ r.val = FALSE

IsClassNamed(v, c) == isclass(v) /\ v.name = c
Unrelated(c, d) == ~InMro(c, d) /\ ~InMro(d, c)

\* C1: a ClassTarget built for class T matches the four call shapes T()
\* (the value is T), c.m() (a method bound to an instance of T), T.m(c) (a
\* plain function called through an attribute whose base evaluates to T) and
\* c() (an instance of T), and matches neither a call of a class unrelated
\* to T nor a call f() of a free function through its bare name.
C1_FourShapes ==
  Done("ClassTarget.should_inline") =>
    LET T == args.target.name
        o == args.obj
    IN /\ IsClassNamed(o, T) => Yes(ret)
       /\ (ismethod(o) /\ o.selfcls = T) => Yes(ret)
       /\ (/\ isfunction(o)
           /\ args.code.kind = "Attribute"
           /\ Returned(args.env)
           /\ IsClassNamed(args.env.val, T)) => Yes(ret)
       /\ (o.t = "instance" /\ o.cls = T) => Yes(ret)
       /\ (isclass(o) /\ Unrelated(o.name, T)) => No(ret)
       /\ (/\ isfunction(o)
           /\ o.qualname = <<"f">>
           /\ args.code.kind = "Name") => No(ret)

C1_Witness ==
  /\ Done("ClassTarget.should_inline")
  /\ args.target = ClassValue("C")
  /\ args.obj = InstanceValue("C")
  /\ Yes(ret)

\* C2: a ClassTarget built for T matches a call whose value is a class S
\* exactly when S is T or a subclass of T, and a call whose value is a bound
\* method exactly when the receiver's class is T or a subclass of T.
C2_SubclassDirection ==
  Done("ClassTarget.should_inline") =>
    LET T == args.target.name
        o == args.obj
    IN /\ isclass(o) => (Yes(ret) <=> InMro(T, o.name))
       /\ ismethod(o) => (Yes(ret) <=> InMro(T, o.selfcls))

\* C3: should_inline of every variant returns a boolean and never raises.
C3_NeverRaises ==
  (/\ ret # Pending
   /\ op \in {"ModuleTarget.should_inline", "FunctionTarget.should_inline",
              "ClassTarget.should_inline", "CursorTarget.should_inline"})
    => (Returned(ret) /\ ret.val \in BOOLEAN)

\* C4: a ModuleTarget built for dotted path T matches a value defined in
\* module M exactly when the segments of T are a prefix of the segments of
\* M, that is when M is T or M continues T with a separator; "a.b" matches
\* "a.b" and "a.b.c" and matches neither "a.bc" nor "a".
SegmentPrefix(T, M) == M = T \/ startswith(M, T \o <<".">>)

C4_PrefixLaw ==
  (Done("ModuleTarget.should_inline") /\ args.obj.module.t = "module") =>
    LET T == args.target.name
        M == args.obj.module.name
    IN /\ Returned(ret)
       /\ ret.val <=> SegmentPrefix(T, M)
       /\ T = <<"a", ".", "b">> =>
            /\ M = <<"a", ".", "b">> => ret.val
            /\ M = <<"a", ".", "b", ".", "c">> => ret.val
            /\ M = <<"a", ".", "b", "c">> => ~ret.val
            /\ M = <<"a">> => ~ret.val

C4_Witness ==
  /\ Done("ModuleTarget.should_inline")
  /\ args.target.name = <<"a", ".", "b">>
  /\ args.obj.module.t = "module"
  /\ args.obj.module.name = <<"a", ".", "b", "c">>
  /\ No(ret)

\* The failure kind of an unresolvable textual path, as the import system
\* raises it.
ResolutionError == "ModuleNotFoundError"

RECURSIVE Lookup(_, _)
Lookup(v, segs) ==
  IF segs = <<>> THEN Ok(v)
  ELSE LET r == getattr(v, Head(segs)) IN
       IF Raised(r) THEN r ELSE Lookup(r.val, Tail(segs))

\* the prefixes make_target tries: all segments, all but one, all but two
Attempt(parts, k) == join(DropLast(parts, k))
Importable(name) == name \in ImportableNames

TargetOf(v) ==
  IF v.t = "module" THEN InlineTarget("ModuleTarget", v)
  ELSE IF isfunction(v) THEN InlineTarget("FunctionTarget", v)
  ELSE InlineTarget("ClassTarget", v)

Supported(v) == v.t = "module" \/ isfunction(v) \/ isclass(v)

\* C10 (first half): when one of the three prefixes is importable, the
\* result is the target of the entity reached from the longest such prefix
\* by looking up the remaining segments as attributes.
C10_ResolvesByShortening ==
  (Done("make_target") /\ args.target.t = "str") =>
    LET parts == split(args.target.chars)
        n == Len(parts)
    IN \A k \in 0..2 :
         (/\ k < n
          /\ Importable(Attempt(parts, k))
          /\ \A j \in 0..(k - 1) : ~Importable(Attempt(parts, j)))
           => LET e == Lookup(ModuleValue(Attempt(parts, k)),
                              SubSeq(parts, n - k + 1, n))
              IN (Returned(e) /\ Supported(e.val))
                   => (Returned(ret) /\ ret.val = TargetOf(e.val))

\* C10 (second half): when no prefix is importable, make_target fails with
\* the one resolution-error kind, whatever the number of segments.
C10_SingleErrorKind ==
  (Done("make_target") /\ args.target.t = "str") =>
    LET parts == split(args.target.chars) IN
    (\A k \in 0..(Len(parts) - 1) : ~Importable(Attempt(parts, k)))
      => (Raised(ret) /\ ret.exc = ResolutionError)

\* C10: make_target on a textual path resolves by shortening the path at
\* the rightmost separator, and fails with the single resolution-error kind
\* when no prefix resolves, for paths of one, two or more segments.
C10_Resolution == C10_ResolvesByShortening /\ C10_SingleErrorKind

(***************************************************************************)
(* inliner/common.py: syntax trees.  A node carries its kind and its       *)
(* attributes in order; an attribute holds a node, a list, or a scalar.    *)
(***************************************************************************)
Mk(kind, fields) == [t |-> "ast", kind |-> kind, fields |-> fields]
F(k, v) == [k |-> k, v |-> v]
ListV(elts) == [t |-> "list", elts |-> elts]
TupleV(items) == [t |-> "tuple", items |-> items]
StrV(s) == [t |-> "str", s |-> s]
BytesV(b) == [t |-> "bytes", b |-> b]
FloatV(f) == [t |-> "float", f |-> f]
DictV(pairs) == [t |-> "dict", pairs |-> pairs]
GenericAliasV == [t |-> "generic_alias"]

Load == Mk("Load", <<>>)
Store == Mk("Store", <<>>)
Add == Mk("Add", <<>>)
USub == Mk("USub", <<>>)

Num(n, lineno) == Mk("Num", <<F("n", IntValue(n)), F("lineno", IntValue(lineno))>>)
Str(s) == Mk("Str", <<F("s", StrV(s))>>)
Bytes(b) == Mk("Bytes", <<F("s", BytesV(b))>>)
NameConstant(v) == Mk("NameConstant", <<F("value", v)>>)
Name(id, ctx, lineno) ==
  Mk("Name", <<F("id", StrV(id)), F("ctx", ctx), F("lineno", IntValue(lineno))>>)
Attribute(value, attr) ==
  Mk("Attribute", <<F("value", value), F("attr", StrV(attr)), F("ctx", Load)>>)
ListNode(elts) == Mk("List", <<F("elts", ListV(elts)), F("ctx", Load)>>)
TupleNode(elts) == Mk("Tuple", <<F("elts", ListV(elts)), F("ctx", Load)>>)
DictNode(keys, values) ==
  Mk("Dict", <<F("keys", ListV(keys)), F("values", ListV(values))>>)
BinOp(left, o, right) ==
  Mk("BinOp", <<F("left", left), F("op", o), F("right", right)>>)
UnaryOp(o, operand) == Mk("UnaryOp", <<F("op", o), F("operand", operand)>>)
Index(value) == Mk("Index", <<F("value", value)>>)
Subscript(value, slice) ==
  Mk("Subscript", <<F("value", value), F("slice", slice), F("ctx", Load)>>)
Call(func, arguments) ==
  Mk("Call", <<F("func", func), F("args", ListV(arguments)),
               F("keywords", ListV(<<>>))>>)
Lambda(body) == Mk("Lambda", <<F("args", Mk("arguments", <<>>)), F("body", body)>>)
Expr(value) == Mk("Expr", <<F("value", value)>>)
FunctionDef(name, body) ==
  Mk("FunctionDef", <<F("name", StrV(name)), F("args", Mk("arguments", <<>>)),
                      F("body", ListV(body)), F("decorator_list", ListV(<<>>))>>)

HasField(n, k) == \E i \in 1..Len(n.fields) : n.fields[i].k = k
\* getattr(node, k)
Field(n, k) == n.fields[CHOOSE i \in 1..Len(n.fields) : n.fields[i].k = k].v

\* type(v): the node class of a node, the builtin type of anything else
PyType(v) == IF v.t = "ast" THEN <<"ast", v.kind>> ELSE <<"builtin", v.t>>

Min(a, b) == IF a <= b THEN a ELSE b

(***************************************************************************)
(* compare_ast                                                             *)
(***************************************************************************)
SkippedAttributes ==
  {"lineno", "col_offset", "ctx", "_pp", "first_token", "last_token", "tokens"}

RECURSIVE compare_ast(_, _)
compare_ast(node1, node2) ==
  IF PyType(node1) # PyType(node2) THEN FALSE
  ELSE IF node1.t = "ast" THEN
    \A i \in 1..Len(node1.fields) :
      \/ node1.fields[i].k \in SkippedAttributes
      \/ compare_ast(node1.fields[i].v, Field(node2, node1.fields[i].k))
  ELSE IF node1.t = "list" THEN
    \* zip stops at the shorter list
    \A i \in 1..Min(Len(node1.elts), Len(node2.elts)) :
      compare_ast(node1.elts[i], node2.elts[i])
  ELSE node1 = node2

(***************************************************************************)
(* Comment.from_str: base64.b64decode and pickle.loads on the payload.     *)
(***************************************************************************)
COMMENT_MARKER == <<"_", "_", "i", "n", "l", "i", "n", "e", "r", ":", " ">>

\* the value of a character of the base64 alphabet (those the model draws)
B64Value(c) ==
  CASE c = "T" -> 19
    [] c = "i" -> 34
    [] c = "4" -> 56
    [] OTHER -> -1

\* the bytes of the sextets of one group: 2 sextets give 1 byte, 3 give 2,
\* 4 give 3
QuadBytes(q) ==
  LET b1 == (q[1] * 4 + q[2] \div 16) % 256
      b2 == ((q[2] % 16) * 16 + q[3] \div 4) % 256
      b3 == ((q[3] % 4) * 64 + q[4]) % 256
  IN IF Len(q) < 2 THEN <<>>
     ELSE IF Len(q) = 2 THEN <<b1>>
     ELSE IF Len(q) = 3 THEN <<b1, b2>>
     ELSE <<b1, b2, b3>>

\* base64.b64decode(s) without validation: characters outside the alphabet
\* are dropped, a completed padding ends the input, an incomplete last
\* group is an error.
RECURSIVE b64decode_from(_, _, _, _)
b64decode_from(s, quad, pads, out) ==
  IF s = <<>> THEN
    IF quad = <<>> THEN Ok(out) ELSE Raise("binascii.Error")
  ELSE IF Head(s) = "=" THEN
    IF Len(quad) >= 2 /\ Len(quad) + pads + 1 >= 4
    THEN Ok(out \o QuadBytes(quad))
    ELSE b64decode_from(Tail(s), quad, IF Len(quad) >= 2 THEN pads + 1 ELSE pads, out)
  ELSE IF B64Value(Head(s)) < 0 THEN b64decode_from(Tail(s), quad, pads, out)
  ELSE LET q == Append(quad, B64Value(Head(s))) IN
       IF Len(q) = 4 THEN b64decode_from(Tail(s), <<>>, 0, out \o QuadBytes(q))
       ELSE b64decode_from(Tail(s), q, 0, out)

b64decode(s) == b64decode_from(s, <<>>, 0, <<>>)

\* pickle.loads(data): the unpickling machine on the opcodes NONE, NEWFALSE,
\* STOP, BININT2, LONG1, LONG4, MARK and STACK_GLOBAL; every other byte the
\* model can produce is no opcode.
OP_NONE == 78
OP_STOP == 46
OP_NEWFALSE == 137
OP_BININT2 == 77
OP_LONG1 == 138
OP_LONG4 == 139
OP_MARK == 40
OP_STACK_GLOBAL == 147

RECURSIVE pickle_run(_, _)
pickle_run(data, stack) ==
  IF data = <<>> THEN Raise("EOFError")
  ELSE
    LET o == Head(data)
        rest == Tail(data)
    IN CASE o = OP_NONE -> pickle_run(rest, Append(stack, NoneValue))
         [] o = OP_NEWFALSE -> pickle_run(rest, Append(stack, [t |-> "bool", b |-> FALSE]))
         [] o = OP_MARK -> pickle_run(rest, Append(stack, [t |-> "mark"]))
         [] o = OP_STOP ->
              IF stack = <<>> \/ stack[Len(stack)].t = "mark"
              THEN Raise("UnpicklingError")
              ELSE Ok(stack[Len(stack)])
         [] o = OP_BININT2 ->
              IF Len(rest) < 2 THEN Raise("UnpicklingError")
              ELSE pickle_run(SubSeq(rest, 3, Len(rest)),
                              Append(stack, IntValue(rest[1] + 256 * rest[2])))
         [] o = OP_LONG1 ->
              IF rest = <<>> \/ Len(rest) < 1 + rest[1] THEN Raise("UnpicklingError")
              ELSE pickle_run(SubSeq(rest, 2 + rest[1], Len(rest)),
                              Append(stack, [t |-> "long", bytes |-> SubSeq(rest, 2, 1 + rest[1])]))
         [] o = OP_LONG4 ->
              LET n == IF Len(rest) < 4 THEN 0
                       ELSE rest[1] + 256 * (rest[2] + 256 * (rest[3] + 256 * rest[4]))
              IN IF Len(rest) < 4 \/ Len(rest) < 4 + n THEN Raise("UnpicklingError")
                 ELSE pickle_run(SubSeq(rest, 5 + n, Len(rest)),
                                 Append(stack, [t |-> "long", bytes |-> SubSeq(rest, 5, 4 + n)]))
         \* STACK_GLOBAL needs two strings on the stack; the machine has none
         [] o = OP_STACK_GLOBAL -> Raise("UnpicklingError")
         [] OTHER -> Raise("UnpicklingError")

pickle_loads(data) == pickle_run(data, <<>>)

\* Comment.from_str(expr), on expr.s
from_str(expr_s) ==
  IF startswith(expr_s, COMMENT_MARKER) THEN
    LET s == SubSeq(expr_s, Len(COMMENT_MARKER) + 1, Len(expr_s))
        data == b64decode(s)
    IN IF Raised(data) THEN data ELSE pickle_loads(data.val)
  ELSE Ok(NoneValue)

\* SourceGeneratorWithComments.visit_Str: what is written for the literal
visit_Str(expr_s, COMMENTS) ==
  IF COMMENTS THEN
    LET comment == from_str(expr_s) IN
    IF Raised(comment) THEN comment
    ELSE IF comment.val.t = "comment" THEN Ok("comment")
    \* comment.to_string() of an unpickled value that is no Comment
    ELSE IF comment.val.t # "none" THEN Raise("AttributeError")
    ELSE Ok("string")
  ELSE Ok("string")

(***************************************************************************)
(* obj_to_ast                                                              *)
(***************************************************************************)
ConversionFailed(rs) == \E i \in 1..Len(rs) : Raised(rs[i])
Vals(rs) == [i \in 1..Len(rs) |-> rs[i].val]

\* parse_expr('float("inf")')
ParsedFloatInf == Call(Name("float", Load, 1), <<Str("inf")>>)

RECURSIVE obj_to_ast(_)
obj_to_ast(obj) ==
  IF obj.t = "tuple" THEN
    LET rs == [i \in 1..Len(obj.items) |-> obj_to_ast(obj.items[i])] IN
    IF ConversionFailed(rs) THEN Raise("ObjConversionException")
    ELSE Ok(Mk("Tuple", <<F("elts", TupleV(Vals(rs)))>>))
  ELSE IF obj.t = "dict" THEN
    LET ks == [i \in 1..Len(obj.pairs) |-> obj_to_ast(obj.pairs[i].key)]
        vs == [i \in 1..Len(obj.pairs) |-> obj_to_ast(obj.pairs[i].value)]
    IN IF ConversionFailed(ks) \/ ConversionFailed(vs)
       THEN Raise("ObjConversionException")
       ELSE Ok(Mk("Dict", <<F("keys", TupleV(Vals(ks))),
                            F("values", TupleV(Vals(vs)))>>))
  ELSE IF obj.t = "list" THEN
    LET rs == [i \in 1..Len(obj.elts) |-> obj_to_ast(obj.elts[i])] IN
    IF ConversionFailed(rs) THEN Raise("ObjConversionException")
    ELSE Ok(Mk("List", <<F("elts", ListV(Vals(rs)))>>))
  ELSE IF obj.t = "class" THEN Ok(Mk("Name", <<F("id", StrV(obj.name))>>))
  ELSE IF obj.t = "int" THEN Ok(Mk("Num", <<F("n", obj)>>))
  ELSE IF obj.t = "str" THEN Ok(Mk("Str", <<F("s", obj)>>))
  ELSE IF obj.t = "none" THEN Ok(NameConstant(NoneValue))
  ELSE IF obj.t = "generic_alias" THEN Ok(NameConstant(NoneValue))
  \* math.isinf holds of both infinities
  ELSE IF obj.t = "float" /\ obj.f \in {"inf", "-inf"} THEN Ok(ParsedFloatInf)
  ELSE IF obj.t = "bytes" THEN Ok(Mk("Bytes", <<F("s", obj)>>))
  ELSE Raise("ObjConversionException")

can_convert_obj_to_ast(obj) ==
  LET r == obj_to_ast(obj) IN
  IF Returned(r) THEN Ok(TRUE)
  ELSE IF r.exc = "ObjConversionException" THEN Ok(FALSE)
  ELSE r

(***************************************************************************)
(* The inputs of the operations of common.py.                              *)
(***************************************************************************)
Seqs(S, maxLen) == UNION {[1..n -> S] : n \in 0..maxLen}

CompareAtoms == {Num(1, 1), Num(1, 2), Num(2, 1)}
CompareLists == {ListNode(e) : e \in Seqs(CompareAtoms, MaxCompareElts)}
CompareTrees ==
  CompareAtoms \cup {ListNode(e) : e \in Seqs(CompareAtoms \cup CompareLists, MaxCompareElts)}

PayloadAlphabet == {"T", "i", "4", "=", "!"}
CommentStrings ==
  {COMMENT_MARKER \o p : p \in Seqs(PayloadAlphabet, MaxPayloadLen)}
    \cup Seqs({"_", "h"}, MaxPayloadLen)
    \cup {DropLast(COMMENT_MARKER, 1), <<"h", "e", "l", "l", "o">>}

ScalarObjs ==
  {IntValue(0), IntValue(1), StrV("a"), NoneValue, BytesV("b"),
   FloatV("inf"), FloatV("-inf"), FloatV("1.5")}
\* keys of a mapping are distinct (and hashable)
KeyObjs == {IntValue(1), StrV("a"), FloatV("-inf")}
Pairs(K, V) ==
  {ps \in Seqs([key : K, value : V], MaxObjElts) :
     \A i, j \in 1..Len(ps) : i # j => ps[i].key # ps[j].key}
\* mappings are drawn non-empty: the unzip of no items is outside this code
FlatObjs ==
  {TupleV(e) : e \in Seqs(ScalarObjs, MaxObjElts)}
    \cup {ListV(e) : e \in Seqs(ScalarObjs, MaxObjElts)}
    \cup {DictV(ps) : ps \in Pairs(KeyObjs, ScalarObjs) \ {<<>>}}
NestedObjs ==
  {TupleV(<<x>>) : x \in FlatObjs}
    \cup {ListV(<<x>>) : x \in FlatObjs}
    \cup {DictV(<<[key |-> StrV("a"), value |-> x]>>) : x \in FlatObjs}
Objs ==
  ScalarObjs \cup FlatObjs \cup NestedObjs
    \cup {ClassValue("C"), GenericAliasV, FunctionValue(<<"f">>)}

InitCommon ==
  /\ ret = Pending
  /\ todo = <<>>
  /\ effect_free = TRUE
  /\ \/ /\ op = "compare_ast"
        /\ args \in [node1 : CompareTrees, node2 : CompareTrees]
     \/ /\ op = "Comment.from_str"
        /\ args \in [expr_s : CommentStrings]
     \/ /\ op = "visit_Str"
        /\ args \in [expr_s : CommentStrings, COMMENTS : BOOLEAN]
     \/ /\ op = "obj_to_ast"
        /\ args \in [obj : Objs]
     \/ /\ op = "can_convert_obj_to_ast"
        /\ args \in [obj : Objs]

CompareAst == Return("compare_ast", Ok(compare_ast(args.node1, args.node2)))
FromStr == Return("Comment.from_str", from_str(args.expr_s))
VisitStr == Return("visit_Str", visit_Str(args.expr_s, args.COMMENTS))
ObjToAst == Return("obj_to_ast", obj_to_ast(args.obj))
CanConvert == Return("can_convert_obj_to_ast", can_convert_obj_to_ast(args.obj))

NextCommon == CompareAst \/ FromStr \/ VisitStr \/ ObjToAst \/ CanConvert

SpecCommon == InitCommon /\ [][NextCommon]_vars

(***************************************************************************)
(* Properties of the operations of common.py.                              *)
(***************************************************************************)
\* two trees of the same shape that hold, in corresponding sequence
\* attributes, a different number of elements
RECURSIVE LengthMismatch(_, _)
LengthMismatch(n1, n2) ==
  IF PyType(n1) # PyType(n2) THEN FALSE
  ELSE IF n1.t = "ast" THEN
    \E i \in 1..Len(n1.fields) :
      /\ n1.fields[i].k \notin SkippedAttributes
      /\ LengthMismatch(n1.fields[i].v, Field(n2, n1.fields[i].k))
  ELSE IF n1.t = "list" THEN
    \/ Len(n1.elts) # Len(n2.elts)
    \/ \E i \in 1..Min(Len(n1.elts), Len(n2.elts)) :
         LengthMismatch(n1.elts[i], n2.elts[i])
  ELSE FALSE

\* C5: compare_ast of two nodes of the same kind is false as soon as some
\* sequence attribute, at any depth, has a different number of elements in
\* the two trees (a proper prefix and an empty sequence included).
C5_EqualLength ==
  (Done("compare_ast") /\ LengthMismatch(args.node1, args.node2)) => No(ret)

\* C8: Comment.from_str never raises; it returns None for a string without
\* the marker and for a marked string whose remainder serializes no record
\* (no payload the model draws serializes one).
C8_DecodeTotal ==
  Done("Comment.from_str") => (Returned(ret) /\ ret.val = NoneValue)

\* the value an expression node denotes
Items(v) == IF v.t = "tuple" THEN v.items ELSE v.elts

RECURSIVE Denote(_)
Denote(node) ==
  CASE node.kind = "Tuple" ->
         LET e == Items(Field(node, "elts")) IN
         TupleV([i \in 1..Len(e) |-> Denote(e[i])])
    [] node.kind = "List" ->
         LET e == Items(Field(node, "elts")) IN
         ListV([i \in 1..Len(e) |-> Denote(e[i])])
    [] node.kind = "Dict" ->
         LET ks == Items(Field(node, "keys"))
             vs == Items(Field(node, "values"))
         IN DictV([i \in 1..Len(ks) |->
                     [key |-> Denote(ks[i]), value |-> Denote(vs[i])]])
    [] node.kind = "Num" -> Field(node, "n")
    [] node.kind = "Str" -> Field(node, "s")
    [] node.kind = "Bytes" -> Field(node, "s")
    [] node.kind = "NameConstant" -> Field(node, "value")
    [] node.kind = "Name" -> ClassValue(Field(node, "id").s)
    \* float("inf"), the only call obj_to_ast produces
    [] node.kind = "Call" -> FloatV(Field(node, "args").elts[1].fields[1].v.s)

\* integers, strings, None, bytes, the two infinities, and tuples, lists and
\* mappings built from them
RECURSIVE Literalizable(_)
Literalizable(v) ==
  CASE v.t \in {"int", "str", "none", "bytes"} -> TRUE
    [] v.t = "float" -> v.f \in {"inf", "-inf"}
    [] v.t = "tuple" -> \A i \in 1..Len(v.items) : Literalizable(v.items[i])
    [] v.t = "list" -> \A i \in 1..Len(v.elts) : Literalizable(v.elts[i])
    [] v.t = "dict" ->
         \A i \in 1..Len(v.pairs) :
           Literalizable(v.pairs[i].key) /\ Literalizable(v.pairs[i].value)
    [] OTHER -> FALSE

\* a shape no case of obj_to_ast handles: a finite float, a function
NoCase(v) == (v.t = "float" /\ v.f \notin {"inf", "-inf"}) \/ v.t = "function"

\* C9: for every accepted value among integers, strings, None, bytes, the
\* infinities and containers of them, obj_to_ast returns a node denoting a
\* value equal to the input; a value of a shape with no case raises
\* ObjConversionException.
C9_EquivalentLiteral ==
  Done("obj_to_ast") =>
    /\ Literalizable(args.obj) => (Returned(ret) /\ Denote(ret.val) = args.obj)
    /\ NoCase(args.obj) => (Raised(ret) /\ ret.exc = "ObjConversionException")

(***************************************************************************)
(* is_effect_free: IsEffectFree walks the fragment depth first; todo is    *)
(* the stack of the nodes still to visit.                                  *)
(***************************************************************************)
RECURSIVE Flatten(_)
Flatten(ss) == IF ss = <<>> THEN <<>> ELSE Head(ss) \o Flatten(Tail(ss))

\* the nodes among the elements of a list attribute
RECURSIVE NodesOf(_)
NodesOf(elts) ==
  IF elts = <<>> THEN <<>>
  ELSE (IF Head(elts).t = "ast" THEN <<Head(elts)>> ELSE <<>>) \o NodesOf(Tail(elts))

\* ast.NodeVisitor.generic_visit: the child nodes, in attribute order
Children(node) ==
  Flatten([i \in 1..Len(node.fields) |->
             LET v == node.fields[i].v IN
             IF v.t = "ast" THEN <<v>>
             ELSE IF v.t = "list" THEN NodesOf(v.elts)
             ELSE <<>>])

func_whitelist ==
  { Name("str", Load, 1), Name("tuple", Load, 1), Name("list", Load, 1),
    Name("int", Load, 1), Name("float", Load, 1),
    Attribute(Name("utils", Load, 1), "to_utf8"), Name("LooseVersion", Load, 1) }

ast_whitelist ==
  { "Num", "Str", "Name", "NameConstant", "Load", "List", "Bytes", "Tuple",
    "Set", "Dict", "Attribute", "BinOp", "UnaryOp", "Index", "Subscript",
    "Slice" }

\* variant: the verdict is assigned the outcome of the test on each node
generic_visit_assigns(node, verdict) ==
  IF node.kind = "FunctionDef" THEN verdict
  ELSE IF node.kind = "Call" THEN
    \E f \in func_whitelist : compare_ast(Field(node, "func"), f)
  ELSE node.kind \in ast_whitelist

\* IsEffectFree.generic_visit: self.effect_free after the tests on the node
generic_visit(node, verdict) ==
  IF node.kind = "FunctionDef" THEN verdict
  ELSE IF node.kind = "Call" THEN
    IF ~\E f \in func_whitelist : compare_ast(Field(node, "func"), f)
    THEN FALSE ELSE verdict
  ELSE IF node.kind \notin ast_whitelist THEN FALSE ELSE verdict

\* the nodes super().generic_visit(node) goes on to visit
Recursed(node) == IF node.kind = "FunctionDef" THEN <<>> ELSE Children(node)

WalkLeaves ==
  {Num(1, 1), Name("x", Load, 1), Str("a"), NameConstant(NoneValue)}
Callees ==
  { Name("str", Load, 1), Name("str", Load, 2), Name("foo", Load, 1),
    Attribute(Name("utils", Load, 1), "to_utf8"),
    Attribute(Name("utils", Load, 1), "other") }
ImpureBody == <<Expr(Call(Name("foo", Load, 1), <<>>))>>
WalkLevel1 ==
  WalkLeaves
    \cup {UnaryOp(USub, l) : l \in WalkLeaves}
    \cup {BinOp(l, Add, Num(2, 1)) : l \in WalkLeaves}
    \cup {Attribute(l, "b") : l \in WalkLeaves}
    \cup {Subscript(l, Index(Num(1, 1))) : l \in WalkLeaves}
    \cup {Lambda(l) : l \in WalkLeaves}
    \cup {ListNode(e) : e \in Seqs(WalkLeaves, MaxElts)}
    \cup {TupleNode(e) : e \in Seqs(WalkLeaves, MaxElts)}
    \cup {DictNode(<<k>>, <<Num(1, 1)>>) : k \in WalkLeaves}
    \cup {Call(f, e) : f \in Callees, e \in Seqs(WalkLeaves, MaxElts)}
    \cup {FunctionDef("g", ImpureBody)}
Fragments ==
  WalkLevel1
    \cup {UnaryOp(USub, e) : e \in WalkLevel1}
    \cup {Attribute(e, "b") : e \in WalkLevel1}
    \cup {ListNode(<<e, Num(1, 1)>>) : e \in WalkLevel1}
    \cup {Call(Name("str", Load, 1), <<e>>) : e \in WalkLevel1}
    \cup {Call(Name("foo", Load, 1), <<e>>) : e \in WalkLevel1}
    \cup {FunctionDef("g", <<Expr(e)>>) : e \in WalkLevel1}

InitWalk ==
  /\ op = "is_effect_free"
  /\ args \in [node : Fragments]
  /\ ret = Pending
  /\ todo = <<args.node>>
  /\ effect_free = TRUE

\* one call of generic_visit, up to its visits of the children
Visit ==
  /\ op = "is_effect_free"
  /\ ret = Pending
  /\ todo # <<>>
  /\ effect_free' = generic_visit(Head(todo), effect_free)
  /\ todo' = Recursed(Head(todo)) \o Tail(todo)
  /\ UNCHANGED <<op, args, ret>>

\* is_effect_free returns visitor.effect_free
Finish ==
  /\ op = "is_effect_free"
  /\ ret = Pending
  /\ todo = <<>>
  /\ ret' = Ok(effect_free)
  /\ UNCHANGED <<op, args, todo, effect_free>>

NextWalk == Visit \/ Finish

SpecWalk == InitWalk /\ [][NextWalk]_vars

(***************************************************************************)
(* Properties of is_effect_free.                                           *)
(***************************************************************************)
\* the tree without its position and context attributes
RECURSIVE Strip(_)
Strip(v) ==
  IF v.t = "ast" THEN
    LET keep == SelectSeq(v.fields, LAMBDA f : f.k \notin SkippedAttributes) IN
    Mk(v.kind, [i \in 1..Len(keep) |-> F(keep[i].k, Strip(keep[i].v))])
  ELSE IF v.t = "list" THEN ListV([i \in 1..Len(v.elts) |-> Strip(v.elts[i])])
  ELSE v

StructurallyEqual(a, b) == Strip(a) = Strip(b)

\* the nodes of a fragment outside the bodies of its function definitions
RECURSIVE Exposed(_)
Exposed(node) ==
  <<node>> \o
    (IF node.kind = "FunctionDef" THEN <<>>
     ELSE LET c == Children(node) IN
          Flatten([i \in 1..Len(c) |-> Exposed(c[i])]))

\* a node that forces the verdict: a call of no whitelisted callable, or a
\* node, neither call nor function definition, of no whitelisted kind
Forcing(node) ==
  IF node.kind = "FunctionDef" THEN FALSE
  ELSE IF node.kind = "Call" THEN
    ~\E f \in func_whitelist : StructurallyEqual(Field(node, "func"), f)
  ELSE node.kind \notin ast_whitelist

HasForcing(node) ==
  LET e == Exposed(node) IN \E i \in 1..Len(e) : Forcing(e[i])

C6_FinalVerdict ==
  (Done("is_effect_free") /\ HasForcing(args.node)) => No(ret)

\* C6: is_effect_free returns false for every fragment that holds, outside
\* the bodies of nested function definitions, a node outside the whitelist
\* or a call of no whitelisted callable; and once the verdict is false no
\* later visited node sets it back to true.
C6_Conservative ==
  /\ []C6_FinalVerdict
  /\ [][effect_free = FALSE => effect_free' = FALSE]_vars

C6_Witness ==
  /\ Done("is_effect_free")
  /\ args.node = Call(Name("foo", Load, 1), <<Num(1, 1), Name("x", Load, 1)>>)
  /\ No(ret)

\* a fragment built solely from literal and operator nodes, with no call
LiteralOperatorKinds ==
  { "Num", "Str", "Name", "NameConstant", "List", "Bytes", "Tuple", "Set",
    "Dict", "Attribute", "BinOp", "UnaryOp", "Index", "Subscript", "Slice" }
OperatorContextKinds == {"Add", "USub", "Load"}

RECURSIVE PureFragment(_)
PureFragment(node) ==
  /\ node.kind \in LiteralOperatorKinds
  /\ LET c == Children(node) IN
     \A i \in 1..Len(c) :
       \/ c[i].kind \in OperatorContextKinds
       \/ PureFragment(c[i])

\* C7: is_effect_free returns true for every fragment built solely from
\* whitelisted literal and operator nodes with no calls, such as 1 + 2 or
\* -x, operator and context child nodes included.
C7_PureIsEffectFree ==
  (Done("is_effect_free") /\ PureFragment(args.node)) => Yes(ret)

====
